---- MODULE Spec2Model ----
(***************************************************************************)
(* Model of findiff/stencils.py: the Stencil class.                        *)
(*                                                                         *)
(* Python objects live on a heap so that aliasing is visible: a Stencil    *)
(* holds a reference `data` to an outer dict (pattern -> reference to a    *)
(* local offset map), and each local offset map is an object of its own    *)
(* (offset tuple -> weight).  Weights are exact fractions [n, d].          *)
(* Axes and grid indices are 0-based as in the source; TLA+ tuples are     *)
(* 1-based, so axis a of a tuple t is t[a + 1].                            *)
(***************************************************************************)
EXTENDS Integers, Sequences, FiniteSets, TLC

VARIABLES stencils, dicts, lstls, last

vars == <<stencils, dicts, lstls, last>>

\* Number of Stencil objects a run constructs.
MaxStencils == 2

(***************************************************************************)
(* Exact rational arithmetic for the weights and the array values.         *)
(***************************************************************************)
Abs(x) == IF x < 0 THEN -x ELSE x

RECURSIVE Gcd(_, _)
Gcd(a, b) == IF b = 0 THEN a ELSE Gcd(b, a % b)

Rat(n, d) ==
    LET g == Gcd(Abs(n), Abs(d))
        s == IF d < 0 THEN -1 ELSE 1
    IN  [n |-> (s * n) \div g, d |-> (s * d) \div g]

Zero == Rat(0, 1)
One == Rat(1, 1)
RAdd(x, y) == Rat(x.n * y.d + y.n * x.d, x.d * y.d)
RSub(x, y) == Rat(x.n * y.d - y.n * x.d, x.d * y.d)
RMul(x, y) == Rat(x.n * y.n, x.d * y.d)
RDivInt(x, k) == Rat(x.n, x.d * k)

RECURSIVE Pow(_, _)
Pow(b, e) == IF e = 0 THEN 1 ELSE b * Pow(b, e - 1)

\* Conversion of a float to an integer array element: truncation toward zero.
Trunc(x) == IF x.n >= 0 THEN Rat(x.n \div x.d, 1) ELSE Rat(-((-x.n) \div x.d), 1)

(***************************************************************************)
(* The coefficient generator coefficients(order, acc) of findiff/coefs.py. *)
(***************************************************************************)
coefficients(order, acc) ==
    CASE <<order, acc>> = <<1, 2>> ->
           [forward  |-> [offsets |-> <<0, 1, 2>>,
                          coefficients |-> <<Rat(-3, 2), Rat(2, 1), Rat(-1, 2)>>],
            center   |-> [offsets |-> <<-1, 0, 1>>,
                          coefficients |-> <<Rat(-1, 2), Rat(0, 1), Rat(1, 2)>>],
            backward |-> [offsets |-> <<-2, -1, 0>>,
                          coefficients |-> <<Rat(1, 2), Rat(-2, 1), Rat(3, 2)>>]]
      [] <<order, acc>> = <<2, 2>> ->
           [forward  |-> [offsets |-> <<0, 1, 2, 3>>,
                          coefficients |-> <<Rat(2, 1), Rat(-5, 1), Rat(4, 1), Rat(-1, 1)>>],
            center   |-> [offsets |-> <<-1, 0, 1>>,
                          coefficients |-> <<Rat(1, 1), Rat(-2, 1), Rat(1, 1)>>],
            backward |-> [offsets |-> <<-3, -2, -1, 0>>,
                          coefficients |-> <<Rat(-1, 1), Rat(4, 1), Rat(-5, 1), Rat(2, 1)>>]]
      [] <<order, acc>> = <<1, 4>> ->
           [forward  |-> [offsets |-> <<0, 1, 2, 3, 4>>,
                          coefficients |-> <<Rat(-25, 12), Rat(4, 1), Rat(-3, 1),
                                             Rat(4, 3), Rat(-1, 4)>>],
            center   |-> [offsets |-> <<-2, -1, 0, 1, 2>>,
                          coefficients |-> <<Rat(1, 12), Rat(-2, 3), Rat(0, 1),
                                             Rat(2, 3), Rat(-1, 12)>>],
            backward |-> [offsets |-> <<-4, -3, -2, -1, 0>>,
                          coefficients |-> <<Rat(1, 4), Rat(-4, 3), Rat(3, 1),
                                             Rat(-4, 1), Rat(25, 12)>>]]

(***************************************************************************)
(* Inputs: grid shapes, (order, acc) pairs and spacings.  One-dimensional  *)
(* grids are explored by Spec, two-dimensional grids by Spec2D.            *)
(***************************************************************************)
Shapes == {<<1>>, <<5>>}
Schemes == {<<1, 2>>, <<1, 4>>}
Shapes2D == {<<1, 3>>}
Schemes2D == {<<1, 2>>, <<2, 2>>}
Hs == {1, 2}
Axes(shape) == 0 .. (Len(shape) - 1)

\* All grid indices of a shape: product(range(shape[0]), range(shape[1]), ...).
Indices(shape) ==
    {idx \in [1 .. Len(shape) -> 0 .. 4] :
        \A a \in Axes(shape) : idx[a + 1] < shape[a + 1]}

\* An index argument is a tuple of ints or a bare int (no __len__).
TupIdx(t) == [kind |-> "tuple", v |-> t]
IntIdx(i) == [kind |-> "int", v |-> i]
IdxArgs(shape) ==
    {TupIdx(t) : t \in Indices(shape)} \cup {IntIdx(i) : i \in 0 .. (shape[1] - 1)}

\* Sample arrays: the ramp u[idx] = idx[axis] * h, stored as integers or floats.
Ramp(shape, axis, h, dtype) ==
    [shape |-> shape, dtype |-> dtype,
     val |-> [idx \in Indices(shape) |-> Rat(idx[axis + 1] * h, 1)]]

ArraysOf(shapes, dtypes) ==
    UNION {{Ramp(shape, axis, h, dtype) : axis \in Axes(shape), h \in Hs, dtype \in dtypes} :
           shape \in shapes}

(***************************************************************************)
(* Outcomes of a call: a returned value or a raised exception.             *)
(***************************************************************************)
Return(v) == [ok |-> TRUE, val |-> v]
Raise(e) == [ok |-> FALSE, err |-> e]

(***************************************************************************)
(* Stencil._det_characteristic_points: product(("L","C","H"), repeat=ndim) *)
(***************************************************************************)
_det_characteristic_points(shape) == [1 .. Len(shape) -> {"L", "C", "H"}]

\* Position of a pattern in the product's enumeration order (axis 0 slowest).
SymRank(c) == CASE c = "L" -> 0 [] c = "C" -> 1 [] c = "H" -> 2

RECURSIVE PatRank(_)
PatRank(pt) ==
    IF Len(pt) = 0 THEN 0
    ELSE 3 * PatRank(SubSeq(pt, 1, Len(pt) - 1)) + SymRank(pt[Len(pt)])

smap(c) == CASE c = "L" -> "forward" [] c = "C" -> "center" [] c = "H" -> "backward"

(***************************************************************************)
(* Stencil._create_stencil, lines 156-164: the loop over                   *)
(* zip(coefs['offsets'], coefs['coefficients']), from pair k on.           *)
(***************************************************************************)
long_off(ndim, axis, off) == [a \in 1 .. ndim |-> IF a = axis + 1 THEN off ELSE 0]

Put(m, k, v) == [o \in DOMAIN m \cup {k} |-> IF o = k THEN v ELSE m[o]]

\* Variant: a contribution replaces the weight already stored at its offset.
RECURSIVE AccumulateOverwrite(_, _, _, _, _, _, _)
AccumulateOverwrite(lstl, coefs, k, ndim, axis, order, h) ==
    IF k > Len(coefs.offsets) \/ k > Len(coefs.coefficients) THEN lstl
    ELSE AccumulateOverwrite(
             Put(lstl, long_off(ndim, axis, coefs.offsets[k]),
                 RDivInt(coefs.coefficients[k], Pow(h, order))),
             coefs, k + 1, ndim, axis, order, h)

RECURSIVE Accumulate(_, _, _, _, _, _, _)
Accumulate(lstl, coefs, k, ndim, axis, order, h) ==
    IF k > Len(coefs.offsets) \/ k > Len(coefs.coefficients) THEN lstl
    ELSE LET lo == long_off(ndim, axis, coefs.offsets[k])
             w  == RDivInt(coefs.coefficients[k], Pow(h, order))
             nl == IF lo \in DOMAIN lstl
                   THEN Put(lstl, lo, RAdd(lstl[lo], w))
                   ELSE Put(lstl, lo, w)
         IN  Accumulate(nl, coefs, k + 1, ndim, axis, order, h)

\* The local offset map of pattern pt after the loop body of lines 147-165.
CreateFor(lstl, pt, shape, axis, order, h, acc) ==
    Accumulate(lstl, coefficients(order, acc)[smap(pt[axis + 1])], 1,
               Len(shape), axis, order, h)

EmptyMap == [o \in {} |-> Zero]

(***************************************************************************)
(* Views of the heap.                                                      *)
(***************************************************************************)
\* The table of stencil s as a value: pattern -> (offset -> weight).
TableOf(s) ==
    LET d == dicts[stencils[s].data]
    IN  [pt \in DOMAIN d |-> lstls[d[pt]]]

\* The local offset map objects reachable from stencil s.
MapsOf(s) ==
    LET d == dicts[stencils[s].data]
    IN  {d[pt] : pt \in DOMAIN d}

\* Every table and every stencil's fields, as values.
Snapshot == [tables |-> [s \in DOMAIN stencils |-> TableOf(s)], objs |-> stencils]

NoLast == [op |-> "none"]

Init ==
    /\ stencils = <<>>
    /\ dicts = <<>>
    /\ lstls = <<>>
    /\ last = NoLast

(***************************************************************************)
(* Stencil.__init__ with _create_stencil.  old = 0 stands for old_stl=None;*)
(* otherwise old is an existing stencil, of a grid with as many axes.      *)
(***************************************************************************)
SeedData(old) == IF old # 0 THEN stencils[old].data ELSE Len(dicts) + 1

Construct(shape, axis, order, h, acc, old) ==
    /\ Len(stencils) < MaxStencils
    /\ LET pts     == _det_characteristic_points(shape)
           did     == SeedData(old)
           data    == IF did <= Len(dicts) THEN dicts[did] ELSE [p \in {} |-> 0]
           missing == pts \ DOMAIN data
           newid(pt) == Len(lstls)
                        + Cardinality({q \in missing : PatRank(q) <= PatRank(pt)})
           ref(pt) == IF pt \in DOMAIN data THEN data[pt] ELSE newid(pt)
           ndata   == [pt \in DOMAIN data \cup pts |-> IF pt \in pts THEN ref(pt) ELSE data[pt]]
           owner(i) == CHOOSE pt \in pts : ref(pt) = i
           nlen    == Len(lstls) + Cardinality(missing)
           self    == [shape |-> shape, axis |-> axis, order |-> order, h |-> h,
                       acc |-> acc, data |-> did]
       IN  /\ lstls' = [i \in 1 .. nlen |->
                          IF \E pt \in pts : ref(pt) = i
                          THEN CreateFor(IF i <= Len(lstls) THEN lstls[i] ELSE EmptyMap,
                                         owner(i), shape, axis, order, h, acc)
                          ELSE lstls[i]]
           /\ dicts' = IF did <= Len(dicts) THEN [dicts EXCEPT ![did] = ndata]
                       ELSE Append(dicts, ndata)
           /\ stencils' = Append(stencils, self)
           /\ last' = [op |-> "init", s |-> Len(stencils) + 1, old |-> old,
                       pre |-> Snapshot]

Seeds(shape) ==
    {0} \cup {s \in 1 .. Len(stencils) : Len(stencils[s].shape) = Len(shape)}

(***************************************************************************)
(* Stencil.type_for_point and the classification loop of Stencil.apply.    *)
(***************************************************************************)
\* Variant: the last index is tested before index 0.
ClassifyHighFirst(shape, idx, a) ==
    IF idx[a + 1] = shape[a + 1] - 1 THEN "H"
    ELSE IF idx[a + 1] = 0 THEN "L"
    ELSE "C"

Classify(shape, idx, a) ==
    IF idx[a + 1] = 0 THEN "L"
    ELSE IF idx[a + 1] = shape[a + 1] - 1 THEN "H"
    ELSE "C"

type_for_point(st, idx) ==
    IF idx.kind # "tuple" THEN Raise("TypeError")
    ELSE IF Len(idx.v) > Len(st.shape) THEN Raise("IndexError")
    ELSE Return([a \in 1 .. Len(idx.v) |-> Classify(st.shape, idx.v, a - 1)])

for_point(st, idx) ==
    LET typ == type_for_point(st, idx)
    IN  IF ~typ.ok THEN typ
        ELSE IF typ.val \notin DOMAIN dicts[st.data] THEN Raise("KeyError")
        ELSE Return(dicts[st.data][typ.val])

(***************************************************************************)
(* Stencil.apply.  u[tuple(idx)] is numpy indexing: along an axis of       *)
(* extent n an index i with -n <= i < n is accepted, a negative one        *)
(* counting from the end; any other raises IndexError.                     *)
(***************************************************************************)
InBounds(shape, idx) ==
    \A a \in 1 .. Len(shape) : -shape[a] <= idx[a] /\ idx[a] < shape[a]

GetItem(u, idx) ==
    u.val[[a \in 1 .. Len(u.shape) |->
             IF idx[a] < 0 THEN idx[a] + u.shape[a] ELSE idx[a]]]

RECURSIVE SumOver(_, _, _, _)
SumOver(offs, stl, u, idx0) ==
    IF offs = {} THEN Zero
    ELSE LET o == CHOOSE x \in offs : TRUE
         IN  RAdd(RMul(stl[o], GetItem(u, [a \in 1 .. Len(idx0) |-> idx0[a] + o[a]])),
                  SumOver(offs \ {o}, stl, u, idx0))

ApplyTyp(st, idx0) == [a \in 1 .. Len(st.shape) |-> Classify(st.shape, idx0, a - 1)]

apply(st, u, idx) ==
    LET idx0 == IF idx.kind # "tuple" THEN <<idx.v>> ELSE idx.v
    IN  IF Len(idx0) < Len(st.shape) THEN Raise("IndexError")
        ELSE LET typ == ApplyTyp(st, idx0)
             IN  IF typ \notin DOMAIN dicts[st.data] THEN Raise("KeyError")
                 ELSE LET stl == lstls[dicts[st.data][typ]]
                      IN  IF \E o \in DOMAIN stl :
                                ~InBounds(u.shape, [a \in 1 .. Len(idx0) |-> idx0[a] + o[a]])
                          THEN Raise("IndexError")
                          ELSE Return(SumOver(DOMAIN stl, stl, u, idx0))

(***************************************************************************)
(* Stencil.apply_all.  du = np.zeros_like(u) has u's dtype, so a value     *)
(* stored into an integer array is truncated.                              *)
(***************************************************************************)
Store(dtype, x) == IF dtype = "int64" THEN Trunc(x) ELSE x

AllIndices(u) ==
    IF Len(u.shape) = 1 THEN {IntIdx(i) : i \in 0 .. (u.shape[1] - 1)}
    ELSE {TupIdx(t) : t \in Indices(u.shape)}

AsTuple(idx) == IF idx.kind # "tuple" THEN <<idx.v>> ELSE idx.v

\* Variant: no shape assertion.
apply_all_unchecked(st, u) ==
    IF \E idx \in AllIndices(u) : ~apply(st, u, idx).ok
    THEN Raise("IndexError")
    ELSE Return([t \in Indices(u.shape) |->
                   Store(u.dtype,
                         apply(st, u, CHOOSE idx \in AllIndices(u) : AsTuple(idx) = t).val)])

apply_all(st, u) ==
    IF st.shape # u.shape THEN Raise("AssertionError")
    ELSE IF \E idx \in AllIndices(u) : ~apply(st, u, idx).ok
    THEN Raise("IndexError")
    ELSE Return([t \in Indices(u.shape) |->
                   Store(u.dtype,
                         apply(st, u, CHOOSE idx \in AllIndices(u) : AsTuple(idx) = t).val)])

(***************************************************************************)
(* The read-only operations as steps: each records its call and outcome.   *)
(***************************************************************************)
Apply(s, u, idx) ==
    /\ last' = [op |-> "apply", s |-> s, idx |-> idx, u |-> u,
                res |-> apply(stencils[s], u, idx)]
    /\ UNCHANGED <<stencils, dicts, lstls>>

ApplyAll(s, u) ==
    /\ last' = [op |-> "apply_all", s |-> s, u |-> u,
                res |-> apply_all(stencils[s], u)]
    /\ UNCHANGED <<stencils, dicts, lstls>>

TypeForPoint(s, idx) ==
    /\ last' = [op |-> "type_for_point", s |-> s, idx |-> idx,
                res |-> type_for_point(stencils[s], idx)]
    /\ UNCHANGED <<stencils, dicts, lstls>>

ForPoint(s, idx) ==
    /\ last' = [op |-> "for_point", s |-> s, idx |-> idx,
                res |-> for_point(stencils[s], idx)]
    /\ UNCHANGED <<stencils, dicts, lstls>>

(***************************************************************************)
(* Stencil._binaryop, reached through __add__ and __sub__.                 *)
(***************************************************************************)
Op(op, x, y) == IF op = "add" THEN RAdd(x, y) ELSE RSub(x, y)

\* Variant: an offset missing from the copy receives the other weight as it is.
MergeNoOp(single_stl, other_single_stl, op) ==
    [o \in DOMAIN single_stl \cup DOMAIN other_single_stl |->
        IF o \notin DOMAIN other_single_stl THEN single_stl[o]
        ELSE IF o \in DOMAIN single_stl
             THEN Op(op, single_stl[o], other_single_stl[o])
             ELSE other_single_stl[o]]

\* Lines 185-189 for one pattern: fold the other operand's map into the copy's.
Merge(single_stl, other_single_stl, op) ==
    [o \in DOMAIN single_stl \cup DOMAIN other_single_stl |->
        IF o \notin DOMAIN other_single_stl THEN single_stl[o]
        ELSE IF o \in DOMAIN single_stl
             THEN Op(op, single_stl[o], other_single_stl[o])
             ELSE Op(op, Zero, other_single_stl[o])]

\* Variant: copy.copy(self), a new Stencil sharing the dict and maps of self.
shallowcopy(self) ==
    [obj |-> stencils[self], dict |-> dicts[stencils[self].data]]

\* deepcopy(self), line 180: a new Stencil with the fields of self, whose outer
\* dict and local offset maps are new objects.  dict maps each pattern to the
\* address of the copy of its local offset map, past the maps in use.
deepcopy(self) ==
    LET sd == dicts[stencils[self].data]
    IN  [obj  |-> [stencils[self] EXCEPT !.data = Len(dicts) + 1],
         dict |-> [pt \in DOMAIN sd |->
                     Len(lstls) + Cardinality({j \in MapsOf(self) : j <= sd[pt]})]]

\* The maps in use after the loop of lines 183-189 has written the merged map of
\* every pattern through the copy's references.
WriteBack(refs, table) ==
    [i \in 1 .. Len(lstls) |->
        IF \E pt \in DOMAIN refs : refs[pt] = i
        THEN table[CHOOSE pt \in DOMAIN refs : refs[pt] = i]
        ELSE lstls[i]]

\* The table the loop of lines 183-189 leaves in the copy.
BinopTable(self, other, op) ==
    LET sd == dicts[stencils[self].data]
        od == dicts[stencils[other].data]
    IN  [char_pt \in DOMAIN sd |-> Merge(lstls[sd[char_pt]], lstls[od[char_pt]], op)]

\* The result is returned to the caller: it is recorded with its table and the
\* addresses of its maps, and is not itself an operand of a later call.
BinaryOp(self, other, op) ==
    LET stl   == deepcopy(self)
        sd    == dicts[stencils[self].data]
        od    == dicts[stencils[other].data]
        table == BinopTable(self, other, op)
    IN  IF stl.obj.shape # stencils[other].shape
        THEN /\ last' = [op |-> op, s |-> self, other |-> other,
                         res |-> Raise("AssertionError"), pre |-> Snapshot]
             /\ UNCHANGED <<stencils, dicts, lstls>>
        ELSE IF \E char_pt \in DOMAIN sd : char_pt \notin DOMAIN od
        THEN /\ last' = [op |-> op, s |-> self, other |-> other,
                         res |-> Raise("KeyError"), pre |-> Snapshot]
             /\ UNCHANGED <<stencils, dicts, lstls>>
        ELSE /\ lstls' = WriteBack(stl.dict, table)
             /\ last' = [op |-> op, s |-> self, other |-> other,
                         res |-> Return([obj |-> stl.obj, refs |-> stl.dict,
                                         table |-> table]),
                         pre |-> Snapshot]
             /\ UNCHANGED <<stencils, dicts>>

(***************************************************************************)
(* Next-state relations: the public surface over a family of grids.        *)
(***************************************************************************)
Step(shapes, schemes) ==
    \/ \E shape \in shapes, sch \in schemes, h \in Hs :
         \E axis \in Axes(shape), old \in Seeds(shape) :
            Construct(shape, axis, sch[1], h, sch[2], old)
    \/ \E s \in DOMAIN stencils :
         \E u \in ArraysOf({stencils[s].shape}, {"float64"}), idx \in IdxArgs(stencils[s].shape) :
            Apply(s, u, idx)
    \/ \E s \in DOMAIN stencils, u \in ArraysOf(shapes, {"int64", "float64"}) : ApplyAll(s, u)
    \/ \E s \in DOMAIN stencils :
         \E idx \in IdxArgs(stencils[s].shape) : TypeForPoint(s, idx)
    \/ \E s \in DOMAIN stencils :
         \E idx \in IdxArgs(stencils[s].shape) : ForPoint(s, idx)
    \/ \E self \in DOMAIN stencils, other \in DOMAIN stencils, op \in {"add", "sub"} :
            BinaryOp(self, other, op)

Next == Step(Shapes, Schemes)

Next2D == Step(Shapes2D, Schemes2D)

Spec == Init /\ [][Next]_vars

Spec2D == Init /\ [][Next2D]_vars

(***************************************************************************)
(* Properties.                                                             *)
(***************************************************************************)
IsBinop == last.op \in {"add", "sub"}

\* Weight of offset o in a local offset map, a missing entry counting as zero.
Wt(m, o) == IF o \in DOMAIN m THEN m[o] ELSE Zero

\* Stencil s shares its table object with no other stencil.
Unshared(s) == \A t \in DOMAIN stencils : t # s => stencils[t].data # stencils[s].data

\* Stencil s was constructed without a seed.
Seedless(s) == \A t \in 1 .. (s - 1) : stencils[t].data # stencils[s].data

\* The local offset map apply selects for the tuple index idx0 of stencil s.
Selected(s, idx0) == lstls[dicts[stencils[s].data][ApplyTyp(stencils[s], idx0)]]

\* The indices apply reads for idx0, one per offset of the selected map.
Reads(s, idx0) ==
    {[a \in 1 .. Len(idx0) |-> idx0[a] + o[a]] : o \in DOMAIN Selected(s, idx0)}

Inside(shape, idx) == \A a \in 1 .. Len(shape) : 0 <= idx[a] /\ idx[a] < shape[a]

\* C1: after a construction with a seed, the seed's table is what it was before
\* the call and the new stencil's table is another object than the seed's.
C1_SeedIsCopied ==
    (last.op = "init" /\ last.old # 0) =>
        /\ TableOf(last.old) = last.pre.tables[last.old]
        /\ stencils[last.s].data # stencils[last.old].data

\* C2: whenever an offset of the map selected for idx0 leads outside
\* [0, shape[a]) on some axis, apply raises an indexing failure and returns
\* no value.
C2_OutOfRangeFails ==
    (/\ last.op = "apply"
     /\ Len(AsTuple(last.idx)) = Len(stencils[last.s].shape)
     /\ Unshared(last.s)
     /\ \E r \in Reads(last.s, AsTuple(last.idx)) : ~Inside(stencils[last.s].shape, r))
    => (~last.res.ok /\ last.res.err = "IndexError")

\* The part of C2 the code keeps: an access at or past the end of an axis fails.
C2_PastEndFails ==
    (/\ last.op = "apply"
     /\ Len(AsTuple(last.idx)) = Len(stencils[last.s].shape)
     /\ \E r \in Reads(last.s, AsTuple(last.idx)) :
           \E a \in 1 .. Len(r) : r[a] >= stencils[last.s].shape[a])
    => (~last.res.ok /\ last.res.err = "IndexError")

\* C3: a + b and a - b leave the tables and fields of every stencil as they
\* were, and the result is a new instance none of whose local offset maps is
\* a map of an existing stencil.
C3_OperandsUntouched ==
    IsBinop =>
        /\ Snapshot = last.pre
        /\ last.res.ok =>
              /\ last.res.val.obj.data \notin 1 .. Len(dicts)
              /\ \A pt \in DOMAIN last.res.val.refs :
                    last.res.val.refs[pt] \notin 1 .. Len(lstls)

C3_Witness ==
    /\ last.op = "sub"
    /\ last.res.ok
    /\ last.s # last.other
    /\ stencils[last.s].data = stencils[last.other].data

\* C4: for operands of one shape the result's table has, for every pattern,
\* exactly the union of the operands' offsets with weight a[o] + b[o]
\* (a[o] - b[o] for -), a missing entry counting as zero; s - s is zero at
\* every offset of s; the table of a + b is the table of b + a.
C4_UnionOfWeights ==
    (IsBinop /\ last.res.ok) =>
        LET A == last.pre.tables[last.s]
            B == last.pre.tables[last.other]
            R == last.res.val.table
        IN  /\ stencils[last.s].shape = stencils[last.other].shape
            /\ DOMAIN R = DOMAIN A
            /\ \A pt \in DOMAIN R :
                  /\ DOMAIN R[pt] = DOMAIN A[pt] \cup DOMAIN B[pt]
                  /\ \A o \in DOMAIN R[pt] :
                        R[pt][o] = IF last.op = "add"
                                   THEN RAdd(Wt(A[pt], o), Wt(B[pt], o))
                                   ELSE RSub(Wt(A[pt], o), Wt(B[pt], o))
            /\ (last.op = "sub" /\ last.s = last.other) =>
                  \A pt \in DOMAIN A : \A o \in DOMAIN A[pt] : R[pt][o] = Zero
            /\ last.op = "add" => R = BinopTable(last.other, last.s, "add")

C4_Witness ==
    /\ last.op = "sub"
    /\ last.res.ok
    /\ last.s # last.other
    /\ \E pt \in DOMAIN last.pre.tables[last.s] :
          \E o \in DOMAIN last.pre.tables[last.other][pt] :
             /\ o \notin DOMAIN last.pre.tables[last.s][pt]
             /\ last.pre.tables[last.other][pt][o] # Zero

\* C5: after construction the table's keys are exactly the 3^ndim patterns, and
\* the map of every pattern is the seed's map for it (empty without a seed)
\* plus coefficient / h**order for each (offset, coefficient) of the scheme the
\* pattern's symbol at `axis` selects, at the offset tuple that is zero off
\* `axis`; a contribution landing on an existing offset is added to it.
C5_Seed(pt) ==
    IF last.old # 0 /\ pt \in DOMAIN last.pre.tables[last.old]
    THEN last.pre.tables[last.old][pt]
    ELSE EmptyMap

C5_Scheme(pt) ==
    LET st  == stencils[last.s]
        sym == pt[st.axis + 1]
        all == coefficients(st.order, st.acc)
    IN  IF sym = "L" THEN all.forward ELSE IF sym = "C" THEN all.center ELSE all.backward

C5_TableAfterConstruction ==
    last.op = "init" =>
        LET st   == stencils[last.s]
            ndim == Len(st.shape)
            T    == TableOf(last.s)
            at(sch, k) == [a \in 1 .. ndim |-> IF a = st.axis + 1 THEN sch.offsets[k] ELSE 0]
        IN  /\ DOMAIN T = [1 .. ndim -> {"L", "C", "H"}]
            /\ Cardinality(DOMAIN T) = Pow(3, ndim)
            /\ \A pt \in DOMAIN T :
                  LET sch  == C5_Scheme(pt)
                      seed == C5_Seed(pt)
                      ks(o) == {k \in 1 .. Len(sch.offsets) : at(sch, k) = o}
                  IN  /\ DOMAIN T[pt] =
                            DOMAIN seed \cup {at(sch, k) : k \in 1 .. Len(sch.offsets)}
                      /\ \A o \in DOMAIN T[pt] :
                            T[pt][o] =
                               IF ks(o) = {} THEN seed[o]
                               ELSE RAdd(Wt(seed, o),
                                         Rat(sch.coefficients[CHOOSE k \in ks(o) : TRUE].n,
                                             sch.coefficients[CHOOSE k \in ks(o) : TRUE].d
                                                * Pow(st.h, st.order)))

C5_Witness ==
    /\ last.op = "init"
    /\ last.old # 0
    /\ stencils[last.old].axis # stencils[last.s].axis
    /\ stencils[last.s].order = 2
    /\ stencils[last.s].h = 2
    /\ \E pt \in DOMAIN last.pre.tables[last.old] :
          /\ <<0, 0>> \in DOMAIN last.pre.tables[last.old][pt]
          /\ last.pre.tables[last.old][pt][<<0, 0>>] # Zero
          /\ TableOf(last.s)[pt][<<0, 0>>] # last.pre.tables[last.old][pt][<<0, 0>>]

\* C6: for an ndim-tuple index inside the grid, type_for_point gives on every
\* axis L at index 0, H at the last index when that is not 0, and C otherwise;
\* an axis of extent 1 is always L; the result is the same for every stencil
\* of that shape, whatever its axis, order, h and acc.
C6_Classification ==
    (last.op = "type_for_point" /\ last.idx.kind = "tuple") =>
        LET shape == stencils[last.s].shape
            idx   == last.idx.v
        IN  /\ last.res.ok
            /\ Len(last.res.val) = Len(shape)
            /\ \A a \in 1 .. Len(shape) :
                  /\ idx[a] = 0 => last.res.val[a] = "L"
                  /\ (idx[a] = shape[a] - 1 /\ idx[a] # 0) => last.res.val[a] = "H"
                  /\ (idx[a] # 0 /\ idx[a] # shape[a] - 1) => last.res.val[a] = "C"
                  /\ shape[a] = 1 => last.res.val[a] = "L"
            /\ \A t \in DOMAIN stencils :
                  stencils[t].shape = shape =>
                     type_for_point(stencils[t], last.idx) = last.res

C6_Witness ==
    /\ last.op = "type_for_point"
    /\ last.idx.kind = "tuple"
    /\ last.res.ok
    /\ last.res.val = <<"L", "H">>
    /\ stencils[last.s].shape[1] = 1

\* C7: apply_all on an array of another shape fails on the assertion and
\* returns no array; a + b and a - b on operands of different shapes fail on
\* the assertion, return no stencil and leave both operands as they were.
C7_ShapeMismatchFails ==
    /\ (last.op = "apply_all" /\ last.u.shape # stencils[last.s].shape) =>
          (~last.res.ok /\ last.res.err = "AssertionError")
    /\ (IsBinop /\ stencils[last.s].shape # stencils[last.other].shape) =>
          (~last.res.ok /\ last.res.err = "AssertionError" /\ Snapshot = last.pre)

C7_Witness ==
    /\ last.op = "apply_all"
    /\ last.u.shape = <<5>>
    /\ stencils[last.s].shape = <<1>>
    /\ ~last.res.ok

C7_WitnessBinop ==
    /\ IsBinop
    /\ stencils[last.s].shape # stencils[last.other].shape
    /\ ~last.res.ok

\* C8: on a 1-D grid of n >= acc + order + 1 points, the stencil of order 1
\* and accuracy 2 with spacing h, applied by apply_all to the ramp
\* u[i] = i * h, returns 1 at every index.
IsRampCase ==
    /\ last.op = "apply_all"
    /\ Len(stencils[last.s].shape) = 1
    /\ stencils[last.s].order = 1
    /\ stencils[last.s].acc = 2
    /\ stencils[last.s].shape[1] >= stencils[last.s].acc + stencils[last.s].order + 1
    /\ last.u.shape = stencils[last.s].shape
    /\ \A t \in DOMAIN last.u.val : last.u.val[t] = Rat(t[1] * stencils[last.s].h, 1)

C8_RampGivesOne ==
    (IsRampCase /\ Seedless(last.s)) =>
        /\ last.res.ok
        /\ DOMAIN last.res.val = DOMAIN last.u.val
        /\ \A t \in DOMAIN last.res.val : last.res.val[t] = One

\* What the code keeps of C8: the same, while the stencil's table object is
\* held by no other stencil.
C8_RampGivesOneUnshared ==
    (IsRampCase /\ Unshared(last.s)) =>
        /\ last.res.ok
        /\ DOMAIN last.res.val = DOMAIN last.u.val
        /\ \A t \in DOMAIN last.res.val : last.res.val[t] = One

\* C9: on a grid whose extent along `axis` keeps the forward scheme at index 0
\* and the backward scheme at the last index inside the array, every index
\* apply reads, at every grid point, lies inside the array.
CorrectlyShaped(st) ==
    LET all == coefficients(st.order, st.acc)
        n   == st.shape[st.axis + 1]
    IN  /\ \A k \in DOMAIN all.forward.offsets : all.forward.offsets[k] <= n - 1
        /\ \A k \in DOMAIN all.backward.offsets : (n - 1) + all.backward.offsets[k] >= 0

C9_StaysInside ==
    (/\ last.op = "apply"
     /\ Len(AsTuple(last.idx)) = Len(stencils[last.s].shape)
     /\ Unshared(last.s)
     /\ CorrectlyShaped(stencils[last.s]))
    => \A r \in Reads(last.s, AsTuple(last.idx)) : Inside(stencils[last.s].shape, r)

\* C10: type_for_point returns, for an ndim-tuple and on a 1-D grid for a bare
\* integer, the pattern apply computes for that index, and for_point returns
\* the local offset map apply uses.
C10_AccessorsAgreeWithApply ==
    /\ (last.op = "type_for_point" /\ Len(AsTuple(last.idx)) = Len(stencils[last.s].shape)) =>
          /\ last.res.ok
          /\ last.res.val = ApplyTyp(stencils[last.s], AsTuple(last.idx))
    /\ (last.op = "for_point" /\ Len(AsTuple(last.idx)) = Len(stencils[last.s].shape)) =>
          /\ last.res.ok
          /\ last.res.val =
                dicts[stencils[last.s].data][ApplyTyp(stencils[last.s], AsTuple(last.idx))]

\* What the code keeps of C10: the agreement for ndim-tuple indices.
C10_AccessorsAgreeOnTuples ==
    /\ (last.op = "type_for_point" /\ last.idx.kind = "tuple") =>
          /\ last.res.ok
          /\ last.res.val = ApplyTyp(stencils[last.s], last.idx.v)
    /\ (last.op = "for_point" /\ last.idx.kind = "tuple") =>
          /\ last.res.ok
          /\ last.res.val = dicts[stencils[last.s].data][ApplyTyp(stencils[last.s], last.idx.v)]

====
